---- MODULE Spec2Model ----
(***************************************************************************)
(* MCP tool handlers of function_app.py: hello_mcp, get_stockprice,        *)
(* get_weatheralerts and get_weatherforecast.                              *)
(*                                                                         *)
(* A Python str is a sequence of chunks (TLA+ strings); an f-string and    *)
(* str.join are concatenations of chunk sequences.  A JSON document, as    *)
(* json.loads / response.json() returns it, is a record tagged with its    *)
(* Python type.  The requests the host delivers and the replies of the     *)
(* external collaborators (quote provider, NWS endpoints) are drawn in     *)
(* Init; the handlers run as interleaved steps that suspend at each        *)
(* external call.                                                          *)
(***************************************************************************)
EXTENDS Integers, Sequences, FiniteSets, TLC

VARIABLES
    workload,      \* slot -> request the host delivers and the collaborators' replies
    pc,            \* slot -> position of the handler invocation
    calls,         \* slot -> external calls issued so far, in order
    ticker_symbol, \* slot -> local ticker_symbol of mcp_get_stockprice
    date,          \* slot -> local date of mcp_get_stockprice (datetime.today())
    ret,           \* slot -> what the invocation handed back to the host
    globals        \* module-level objects built at import time

vars == <<workload, pc, calls, ticker_symbol, date, ret, globals>>

-----------------------------------------------------------------------------
(* Bounds of the model.                                                    *)

MaxTickerLen == 2
MaxFeatures == 2
MaxPeriods == 6
NumConcurrent == 2

-----------------------------------------------------------------------------
(* JSON documents as Python objects.                                       *)

JNull == [t |-> "null", n |-> 0, s |-> <<>>, a |-> <<>>, o |-> <<>>]
JNum(n) == [t |-> "num", n |-> n, s |-> <<>>, a |-> <<>>, o |-> <<>>]
JStr(s) == [t |-> "str", n |-> 0, s |-> s, a |-> <<>>, o |-> <<>>]
JArr(a) == [t |-> "arr", n |-> 0, s |-> <<>>, a |-> a, o |-> <<>>]
JObj(o) == [t |-> "obj", n |-> 0, s |-> <<>>, a |-> <<>>, o |-> o]

\* Python truth value: None, 0, "", [] and {} are falsy.
Truthy(v) ==
    CASE v.t = "null" -> FALSE
      [] v.t = "num" -> v.n # 0
      [] v.t = "str" -> v.s # <<>>
      [] v.t = "arr" -> v.a # <<>>
      [] v.t = "obj" -> DOMAIN v.o # {}

\* obj.get(key): only a dict has .get (AttributeError otherwise); a missing
\* key gives the default.
HasGet(v) == v.t = "obj"
Get(v, key, default) == IF key \in DOMAIN v.o THEN v.o[key] ELSE default

\* key in obj: membership of a dict's keys or a list's elements; a number
\* is not iterable (TypeError).
CanContain(v) == v.t \in {"obj", "arr", "str"}
Contains(v, key) ==
    CASE v.t = "obj" -> key \in DOMAIN v.o
      [] v.t = "arr" -> \E k \in 1..Len(v.a) : v.a[k] = JStr(<<key>>)
      [] v.t = "str" -> \E k \in 1..Len(v.s) : v.s[k] = key

\* obj[key] with a str key: only a dict holding the key answers; a missing
\* key is a KeyError, any other object a TypeError.
IndexError(v, key) ==
    CASE v.t = "obj" /\ key \in DOMAIN v.o -> "none"
      [] v.t = "obj" -> "KeyError"
      [] OTHER -> "TypeError"
Index(v, key) == v.o[key]

\* str(x) as an f-string interpolates it.
Str(v) ==
    CASE v.t = "null" -> <<"None">>
      [] v.t = "num" -> <<ToString(v.n)>>
      [] v.t = "str" -> v.s
      [] v.t = "arr" -> <<"[...]">>
      [] v.t = "obj" -> <<"{...}">>

-----------------------------------------------------------------------------
(* Python str operations on chunk sequences.                               *)

Whitespace == {" "}

upper_char(c) ==
    CASE c = "a" -> "A"
      [] c = "b" -> "B"
      [] OTHER -> c

\* str.upper()
upper(s) == [k \in 1..Len(s) |-> upper_char(s[k])]

RECURSIVE lstrip(_)
lstrip(s) ==
    IF s # <<>> /\ Head(s) \in Whitespace THEN lstrip(Tail(s)) ELSE s

RECURSIVE rstrip(_)
rstrip(s) ==
    IF s # <<>> /\ s[Len(s)] \in Whitespace
    THEN rstrip(SubSeq(s, 1, Len(s) - 1))
    ELSE s

\* str.strip()
strip(s) == rstrip(lstrip(s))

\* sep.join(parts)
RECURSIVE join(_, _)
join(sep, parts) ==
    IF parts = <<>> THEN <<>>
    ELSE IF Len(parts) = 1 THEN parts[1]
    ELSE parts[1] \o <<sep>> \o join(sep, Tail(parts))

\* seq[:n]
Prefix(seq, n) == SubSeq(seq, 1, IF Len(seq) < n THEN Len(seq) ELSE n)

-----------------------------------------------------------------------------
(* Module-level objects.                                                   *)

ToolProperty(property_name, property_type) ==
    [propertyName |-> property_name, propertyType |-> property_type]

tool_properties_get_stockprice_json == <<ToolProperty("ticker", "string")>>

tool_properties_get_state_json == <<ToolProperty("state", "string")>>

tool_properties_get_latlong_json ==
    <<ToolProperty("latitude", "string"), ToolProperty("longitude", "string")>>

NWS_API_BASE == "https://api.weather.gov"

USER_AGENT == "weather-app/1.0"

\* The module namespace after import.
ModuleGlobals ==
    [tool_properties_get_stockprice_json |-> tool_properties_get_stockprice_json,
     tool_properties_get_state_json |-> tool_properties_get_state_json,
     tool_properties_get_latlong_json |-> tool_properties_get_latlong_json,
     NWS_API_BASE |-> NWS_API_BASE,
     USER_AGENT |-> USER_AGENT]

\* The tools registered with the host and the toolProperties each declares.
ToolNames ==
    {"hello_mcp", "get_stockprice", "get_weatheralerts", "get_weatherforecast"}

DeclaredProperties(tool) ==
    LET props == CASE tool = "hello_mcp" -> <<>>
                   [] tool = "get_stockprice" -> tool_properties_get_stockprice_json
                   [] tool = "get_weatheralerts" -> tool_properties_get_state_json
                   [] tool = "get_weatherforecast" -> tool_properties_get_latlong_json
    IN {props[k].propertyName : k \in 1..Len(props)}

-----------------------------------------------------------------------------
(* What a handler hands back to the host.                                  *)

Pending == [status |-> "pending", form |-> "none", body |-> <<>>, obj |-> <<>>]

\* return "<text>"
ReturnText(body) ==
    [status |-> "returned", form |-> "text", body |-> body, obj |-> <<>>]

\* return json.dumps(obj)
ReturnJson(obj) ==
    [status |-> "returned", form |-> "json", body |-> <<>>, obj |-> obj]

\* an exception leaves the handler
Raise(exc) ==
    [status |-> "raised", form |-> "exception", body |-> <<exc>>, obj |-> <<>>]

\* One external call: the quote provider asked for a symbol, or an HTTP GET.
Call(to, target) == [to |-> to, target |-> target]

-----------------------------------------------------------------------------
(* The requests the host may deliver: a raw context string is either not   *)
(* JSON at all or the text of some JSON document.                          *)

SeqsUpTo(S, n) == UNION {[1..k -> S] : k \in 0..n}

Malformed == [wellformed |-> FALSE, doc |-> JNull]
Document(doc) == [wellformed |-> TRUE, doc |-> doc]

\* json.loads(context) raises JSONDecodeError unless context is JSON text.
json_loads_fails(context) == ~context.wellformed
json_loads(context) == context.doc

TickerChars == {"a", "A", "b", " "}
TickerStrings == SeqsUpTo(TickerChars, MaxTickerLen)

\* Values a caller may put under each declared property.
ArgumentValues(name) ==
    CASE name = "ticker" ->
             {JNull, JNum(5)} \cup {JStr(s) : s \in TickerStrings}
      [] name = "state" -> {JStr(<<"NJ">>)}
      [] name = "latitude" -> {JStr(<<"40.7">>)}
      [] name = "longitude" -> {JStr(<<"-74.0">>)}

\* Every arguments map over a subset of the tool's declared properties.
ArgumentMaps(tool) ==
    UNION {[present -> UNION {ArgumentValues(n) : n \in present}] :
               present \in SUBSET DeclaredProperties(tool)}

WellTyped(tool, m) == \A n \in DOMAIN m : m[n] \in ArgumentValues(n)

Contexts(tool) ==
    {Malformed,
     Document(JArr(<<>>)),
     Document(JObj(<<>>)),
     Document(JObj("arguments" :> JNull))}
    \cup {Document(JObj("arguments" :> JObj(m))) :
              m \in {x \in ArgumentMaps(tool) : WellTyped(tool, x)}}

-----------------------------------------------------------------------------
(* The replies of the external collaborators.                              *)

Reply(kind, json) == [kind |-> kind, json |-> json]

NoReply == Reply("none", JNull)

\* httpx: the GET times out, the transport fails, raise_for_status() raises.
HttpFailures == {Reply("timeout", JNull), Reply("transport", JNull), Reply("status", JNull)}

\* yfinance: Ticker(symbol).info raises, or gives None or a record.
QuoteFull ==
    JObj("currentPrice" :> JNum(189) @@ "dayLow" :> JNum(187)
         @@ "dayHigh" :> JNum(191) @@ "open" :> JNum(188)
         @@ "previousClose" :> JNum(186) @@ "marketCap" :> JNum(2900)
         @@ "longName" :> JStr(<<"Apple Inc.">>))

QuoteField(k) == IF k = "currentPrice" THEN JNum(189) ELSE JStr(<<"Apple Inc.">>)

QuoteReplies ==
    {Reply("raise", JNull), Reply("ok", JNull), Reply("ok", QuoteFull)}
    \cup {Reply("ok", JObj([k \in ks |-> QuoteField(k)])) :
              ks \in SUBSET {"currentPrice", "longName"}}

\* NWS alerts: a FeatureCollection, or something else.
Features ==
    {JObj(<<>>),
     JObj("properties" :> JObj(<<>>)),
     JObj("properties" :> JObj("event" :> JStr(<<"Flood Warning">>))),
     JObj("properties" :> JObj("event" :> JStr(<<"Tornado Watch">>)
                               @@ "severity" :> JStr(<<"Severe">>)))}

AlertsReplies ==
    HttpFailures
    \cup {Reply("ok", JObj(<<>>)),
          Reply("ok", JNum(5)),
          Reply("ok", JObj("title" :> JStr(<<"alerts">>))),
          Reply("ok", JObj("features" :> JNull))}
    \cup {Reply("ok", JObj("features" :> JArr(fs))) :
              fs \in SeqsUpTo(Features, MaxFeatures)}

\* NWS points: properties.forecast is the URL of the forecast document.
ForecastUrls ==
    {<<"https://api.weather.gov/gridpoints/OKX/33,35/forecast">>,
     <<"https://api.weather.gov/gridpoints/PHI/57,92/forecast">>}

PointsReplies ==
    HttpFailures
    \cup {Reply("ok", JObj(<<>>)),
          Reply("ok", JObj("title" :> JStr(<<"point">>))),
          Reply("ok", JObj("properties" :> JObj(<<>>))),
          Reply("ok", JObj("properties" :> JObj("forecast" :> JNull)))}
    \cup {Reply("ok", JObj("properties" :> JObj("forecast" :> JStr(u)))) :
              u \in ForecastUrls}

\* NWS forecast: properties.periods; period k of a document is told from
\* the others by its name, and period `bad` (if any) lacks a field.
PeriodFields ==
    <<"name", "temperature", "temperatureUnit", "windSpeed", "windDirection",
      "detailedForecast">>

PeriodValue(k, field) ==
    CASE field = "name" -> JStr(<<"Period ", ToString(k)>>)
      [] field = "temperature" -> JNum(60 + k)
      [] field = "temperatureUnit" -> JStr(<<"F">>)
      [] field = "windSpeed" -> JStr(<<"5 mph">>)
      [] field = "windDirection" -> JStr(<<"NW">>)
      [] field = "detailedForecast" -> JStr(<<"Outlook ", ToString(k)>>)

Period(k, complete) ==
    LET fields == {PeriodFields[j] : j \in 1..Len(PeriodFields)}
        kept == IF complete THEN fields ELSE fields \ {"detailedForecast"}
    IN JObj([f \in kept |-> PeriodValue(k, f)])

Periods(n, bad) == [k \in 1..n |-> Period(k, k # bad)]

ForecastDocument(periods) ==
    JObj("properties" :> JObj("periods" :> JArr(periods)))

ForecastReplies ==
    HttpFailures
    \cup {Reply("ok", JObj(<<>>)), Reply("ok", JObj("properties" :> JObj(<<>>)))}
    \cup {Reply("ok", ForecastDocument(Periods(n, bad))) :
              n \in 0..MaxPeriods, bad \in 0..MaxPeriods}

\* One unit of work: the request and the replies its external calls get.
Request(tool, context, reply1, reply2) ==
    [tool |-> tool, context |-> context, reply1 |-> reply1, reply2 |-> reply2]

RequestsOf(tool, contexts, replies1, replies2) ==
    {Request(tool, c, r1, r2) : c \in contexts, r1 \in replies1, r2 \in replies2}

Requests ==
    RequestsOf("hello_mcp", Contexts("hello_mcp"), {NoReply}, {NoReply})
    \cup RequestsOf("get_stockprice", Contexts("get_stockprice"), QuoteReplies, {NoReply})
    \cup RequestsOf("get_weatheralerts", Contexts("get_weatheralerts"),
                    AlertsReplies, {NoReply})
    \cup RequestsOf("get_weatherforecast", Contexts("get_weatherforecast"),
                    PointsReplies, ForecastReplies)

-----------------------------------------------------------------------------
(* State changes shared by the handlers.                                   *)

Slots == DOMAIN workload

\* The handler of slot i ends, handing r back to the host.
Finish(i, r) ==
    /\ pc' = [pc EXCEPT ![i] = "done"]
    /\ ret' = [ret EXCEPT ![i] = r]

\* The handler of slot i issues an external call and waits for its reply.
Issue(i, call, waiting) ==
    /\ pc' = [pc EXCEPT ![i] = waiting]
    /\ calls' = [calls EXCEPT ![i] = Append(@, call)]
    /\ UNCHANGED ret

\* try: client.get(...); raise_for_status(); response.json()
\* except Exception: None
ResponseData(reply) == IF reply.kind = "ok" THEN reply.json ELSE JNull

\* mcp_data = json.loads(context); args = mcp_data.get("arguments", {}):
\* the exception this raises, or "none".
ArgumentsError(context) ==
    IF json_loads_fails(context) THEN "JSONDecodeError"
    ELSE IF ~HasGet(json_loads(context)) THEN "AttributeError"
    ELSE IF ~HasGet(Get(json_loads(context), "arguments", JObj(<<>>)))
         THEN "AttributeError"
    ELSE "none"

\* args.get(name) once ArgumentsError is "none".
Argument(context, name) ==
    Get(Get(json_loads(context), "arguments", JObj(<<>>)), name, JNull)

\* The host invokes the handler registered for the tool.
Trigger(i) ==
    /\ pc[i] = "idle"
    /\ pc' = [pc EXCEPT ![i] = "entry"]
    /\ UNCHANGED <<workload, calls, ticker_symbol, date, ret, globals>>

-----------------------------------------------------------------------------
(* hello_mcp                                                               *)

hello_mcp(i) ==
    /\ pc[i] = "entry"
    /\ workload[i].tool = "hello_mcp"
    /\ Finish(i, ReturnText(<<"Hello I am MCPTool!">>))
    /\ UNCHANGED <<workload, calls, ticker_symbol, date, globals>>

-----------------------------------------------------------------------------
(* mcp_get_stockprice                                                      *)

ErrorJson(message) == ReturnJson("error" :> message)

\* Normalization that forgets .strip().
NormalizeTicker_NoStrip(s) == upper(s)

\* ticker_symbol.upper().strip()
NormalizeTicker(s) == strip(upper(s))

\* The except Exception clause: the message names ticker_symbol if the
\* local was already bound.
StockFailure(known, exc) ==
    ErrorJson(<<"Error fetching stock data for ">> \o known \o <<": ", exc>>)

\* StockPrepare without the check of line 127, the ticker coerced with str().
StockPrepare_Unvalidated(context) ==
    IF ArgumentsError(context) = "JSONDecodeError"
    THEN [early |-> TRUE, symbol |-> <<>>,
          ret |-> ErrorJson(<<"Invalid JSON context provided: ", "JSONDecodeError">>)]
    ELSE IF ArgumentsError(context) # "none"
    THEN [early |-> TRUE, symbol |-> <<>>,
          ret |-> StockFailure(<<"unknown ticker">>, ArgumentsError(context))]
    ELSE [early |-> FALSE, ret |-> Pending,
          symbol |-> NormalizeTicker(Str(Argument(context, "ticker")))]

\* Lines 118-132: what the handler returns before any lookup, if it does.
\* [early |-> TRUE, ret |-> ...] or [early |-> FALSE, symbol |-> ...].
StockPrepare(context) ==
    LET raw == Argument(context, "ticker") IN
    IF ArgumentsError(context) = "JSONDecodeError"
    THEN [early |-> TRUE, symbol |-> <<>>,
          ret |-> ErrorJson(<<"Invalid JSON context provided: ", "JSONDecodeError">>)]
    ELSE IF ArgumentsError(context) # "none"
    THEN [early |-> TRUE, symbol |-> <<>>,
          ret |-> StockFailure(<<"unknown ticker">>, ArgumentsError(context))]
    ELSE IF ~Truthy(raw)
    THEN [early |-> TRUE, symbol |-> <<>>,
          ret |-> ErrorJson(<<"No ticker symbol provided. Please provide a ticker symbol like TSLA, AAPL, etc.">>)]
    ELSE IF raw.t # "str"
    THEN [early |-> TRUE, symbol |-> <<>>,
          ret |-> StockFailure(Str(raw), "AttributeError")]
    ELSE [early |-> FALSE, symbol |-> NormalizeTicker(raw.s), ret |-> Pending]

\* mcp_get_stockprice_begin with ticker_symbol a module-level name that all
\* invocations assign.
mcp_get_stockprice_begin_shared(i) ==
    /\ pc[i] = "entry"
    /\ workload[i].tool = "get_stockprice"
    /\ LET p == StockPrepare(workload[i].context) IN
       IF p.early
       THEN /\ Finish(i, p.ret)
            /\ UNCHANGED <<calls, ticker_symbol>>
       ELSE /\ ticker_symbol' = [j \in Slots |-> p.symbol]
            /\ Issue(i, Call("quote", p.symbol), "quote_wait")
    /\ UNCHANGED <<workload, date, globals>>

\* Lines 118-136: parse, validate, normalize, then ask the provider.
mcp_get_stockprice_begin(i) ==
    /\ pc[i] = "entry"
    /\ workload[i].tool = "get_stockprice"
    /\ LET p == StockPrepare(workload[i].context) IN
       IF p.early
       THEN /\ Finish(i, p.ret)
            /\ UNCHANGED <<calls, ticker_symbol>>
       ELSE /\ ticker_symbol' = [ticker_symbol EXCEPT ![i] = p.symbol]
            /\ Issue(i, Call("quote", p.symbol), "quote_wait")
    /\ UNCHANGED <<workload, date, globals>>

\* info.get(key, default), as json.dumps writes it.
InfoField(info, key, default) == Str(Get(info, key, JStr(default)))

\* Lines 148-159.
StockResult(symbol, info, d) ==
    "symbol" :> symbol
    @@ "date" :> <<d>>
    @@ "current_price" :> InfoField(info, "currentPrice", <<"N/A">>)
    @@ "day_low" :> InfoField(info, "dayLow", <<"N/A">>)
    @@ "day_high" :> InfoField(info, "dayHigh", <<"N/A">>)
    @@ "opening_price" :> InfoField(info, "open", <<"N/A">>)
    @@ "previous_close" :> InfoField(info, "previousClose", <<"N/A">>)
    @@ "market_cap" :> InfoField(info, "marketCap", <<"N/A">>)
    @@ "company_name" :> InfoField(info, "longName", symbol)
    @@ "link" :> <<"https://finance.yahoo.com/quote/">> \o symbol \o <<"/">>

\* Line 140 without the test for currentPrice.
QuoteUnusable_EmptyOnly(info) == ~Truthy(info)

\* Line 140: not info or 'currentPrice' not in info
QuoteUnusable(info) == ~Truthy(info) \/ ~Contains(info, "currentPrice")

\* Lines 137-172: the provider's reply decides what is returned.
StockOutcome(symbol, reply, d) ==
    IF reply.kind # "ok"
    THEN [read |-> FALSE, ret |-> StockFailure(symbol, "ProviderError")]
    ELSE IF Truthy(reply.json) /\ ~CanContain(reply.json)
    THEN [read |-> FALSE, ret |-> StockFailure(symbol, "TypeError")]
    ELSE IF QuoteUnusable(reply.json)
    THEN [read |-> FALSE,
          ret |-> ErrorJson(<<"Unable to fetch stock data for ticker symbol: ">>
                            \o symbol
                            \o <<". Please check if the symbol is valid.">>)]
    ELSE IF ~HasGet(reply.json)
    THEN [read |-> TRUE, ret |-> StockFailure(symbol, "AttributeError")]
    ELSE [read |-> TRUE, ret |-> ReturnJson(StockResult(symbol, reply.json, d))]

Dates == {"2026-11-06", "2026-11-07"}

mcp_get_stockprice_end(i) ==
    /\ pc[i] = "quote_wait"
    /\ \E d \in Dates :
         LET out == StockOutcome(ticker_symbol[i], workload[i].reply1, d) IN
         /\ Finish(i, out.ret)
         /\ date' = [date EXCEPT ![i] = IF out.read THEN d ELSE @]
    /\ UNCHANGED <<workload, calls, ticker_symbol, globals>>

-----------------------------------------------------------------------------
(* mcp_get_weatheralerts                                                   *)

\* The exception format_alert(feature) raises, or "none".
format_alert_error(feature) ==
    IF IndexError(feature, "properties") # "none"
    THEN IndexError(feature, "properties")
    ELSE IF ~HasGet(Index(feature, "properties")) THEN "AttributeError"
    ELSE "none"

format_alert(feature) ==
    LET props == Index(feature, "properties") IN
    <<"\n        Event: ">> \o Str(Get(props, "event", JStr(<<"Unknown">>)))
    \o <<"\n        Area: ">> \o Str(Get(props, "areaDesc", JStr(<<"Unknown">>)))
    \o <<"\n        Severity: ">> \o Str(Get(props, "severity", JStr(<<"Unknown">>)))
    \o <<"\n        Description: ">>
    \o Str(Get(props, "description", JStr(<<"No description available">>)))
    \o <<"\n        Instructions: ">>
    \o Str(Get(props, "instruction", JStr(<<"No specific instructions provided">>)))
    \o <<"\n        ">>

\* Line 210: the exception the first feature that has one raises, or "none".
RECURSIVE FirstAlertError(_)
FirstAlertError(features) ==
    IF features = <<>> THEN "none"
    ELSE IF format_alert_error(Head(features)) # "none"
    THEN format_alert_error(Head(features))
    ELSE FirstAlertError(Tail(features))

Separator == "\n---\n"

\* Line 189.
AlertsUrl(base, state) == <<base, "/alerts/active/area/">> \o Str(state)

\* Lines 184-198: parse, build the URL, GET it.
mcp_get_weatheralerts_begin(i) ==
    /\ pc[i] = "entry"
    /\ workload[i].tool = "get_weatheralerts"
    /\ LET context == workload[i].context IN
       IF ArgumentsError(context) # "none"
       THEN /\ Finish(i, Raise(ArgumentsError(context)))
            /\ UNCHANGED calls
       ELSE Issue(i, Call("http", AlertsUrl(globals.NWS_API_BASE,
                                            Argument(context, "state"))),
                  "alerts_wait")
    /\ UNCHANGED <<workload, ticker_symbol, date, globals>>

\* Lines 204-211.
AlertsOutcome(data) ==
    IF ~Truthy(data)
    THEN ReturnText(<<"Unable to fetch alerts or no alerts found.">>)
    ELSE IF ~CanContain(data) THEN Raise("TypeError")
    ELSE IF ~Contains(data, "features")
    THEN ReturnText(<<"Unable to fetch alerts or no alerts found.">>)
    ELSE IF IndexError(data, "features") # "none"
    THEN Raise(IndexError(data, "features"))
    ELSE LET features == Index(data, "features") IN
         IF ~Truthy(features)
         THEN ReturnText(<<"No active alerts for this state.">>)
         ELSE IF features.t # "arr" THEN Raise("TypeError")
         ELSE IF FirstAlertError(features.a) # "none"
         THEN Raise(FirstAlertError(features.a))
         ELSE ReturnText(join(Separator,
                              [k \in 1..Len(features.a) |-> format_alert(features.a[k])]))

\* Lines 199-211: the reply decides what is returned.
mcp_get_weatheralerts_end(i) ==
    /\ pc[i] = "alerts_wait"
    /\ Finish(i, AlertsOutcome(ResponseData(workload[i].reply1)))
    /\ UNCHANGED <<workload, calls, ticker_symbol, date, globals>>

-----------------------------------------------------------------------------
(* mcp_get_weatherforecast                                                 *)

\* Line 228.
PointsUrl(base, latitude, longitude) ==
    <<base, "/points/">> \o Str(latitude) \o <<",">> \o Str(longitude)

\* Lines 222-237: parse, build the points URL, GET it.
mcp_get_weatherforecast_begin(i) ==
    /\ pc[i] = "entry"
    /\ workload[i].tool = "get_weatherforecast"
    /\ LET context == workload[i].context IN
       IF ArgumentsError(context) # "none"
       THEN /\ Finish(i, Raise(ArgumentsError(context)))
            /\ UNCHANGED calls
       ELSE Issue(i, Call("http", PointsUrl(globals.NWS_API_BASE,
                                            Argument(context, "latitude"),
                                            Argument(context, "longitude"))),
                  "points_wait")
    /\ UNCHANGED <<workload, ticker_symbol, date, globals>>

\* Line 247: the exception points_data["properties"]["forecast"] raises, or
\* "none".
ForecastUrlError(points_data) ==
    IF IndexError(points_data, "properties") # "none"
    THEN IndexError(points_data, "properties")
    ELSE IndexError(Index(points_data, "properties"), "forecast")

\* A forecast URL that is not read from the points document.
ForecastUrl_Fixed(points_data) ==
    JStr(<<"https://api.weather.gov/gridpoints/OKX/33,35/forecast">>)

ForecastUrl(points_data) == Index(Index(points_data, "properties"), "forecast")

\* Lines 238-252: the points reply decides whether the forecast is asked
\* for.  client.get(url) with a url that is no str raises inside the try,
\* before anything is sent.
mcp_get_weatherforecast_points(i) ==
    /\ pc[i] = "points_wait"
    /\ LET points_data == ResponseData(workload[i].reply1) IN
       IF ~Truthy(points_data)
       THEN /\ Finish(i, ReturnText(<<"Unable to fetch forecast data for this location.">>))
            /\ UNCHANGED calls
       ELSE IF ForecastUrlError(points_data) # "none"
       THEN /\ Finish(i, Raise(ForecastUrlError(points_data)))
            /\ UNCHANGED calls
       ELSE IF ForecastUrl(points_data).t # "str"
       THEN /\ pc' = [pc EXCEPT ![i] = "forecast_wait"]
            /\ UNCHANGED <<calls, ret>>
       ELSE Issue(i, Call("http", ForecastUrl(points_data).s), "forecast_wait")
    /\ UNCHANGED <<workload, ticker_symbol, date, globals>>

\* Line 264: periods[:5]
PeriodsShown == 5

\* The exception formatting one period raises, or "none".
PeriodError(period) ==
    IF period.t # "obj" THEN "TypeError"
    ELSE IF \E j \in 1..Len(PeriodFields) : PeriodFields[j] \notin DOMAIN period.o
    THEN "KeyError"
    ELSE "none"

\* Line 264: the exception the first period that has one raises, or "none".
RECURSIVE FirstPeriodError(_)
FirstPeriodError(periods) ==
    IF periods = <<>> THEN "none"
    ELSE IF PeriodError(Head(periods)) # "none" THEN PeriodError(Head(periods))
    ELSE FirstPeriodError(Tail(periods))

\* Lines 265-270.
FormatPeriod(period) ==
    <<"\n            ">> \o Str(Index(period, "name"))
    \o <<":\n            Temperature: ">> \o Str(Index(period, "temperature"))
    \o <<"Â°">> \o Str(Index(period, "temperatureUnit"))
    \o <<"\n            Wind: ">> \o Str(Index(period, "windSpeed"))
    \o <<" ">> \o Str(Index(period, "windDirection"))
    \o <<"\n            Forecast: ">> \o Str(Index(period, "detailedForecast"))
    \o <<"\n            ">>

\* Line 262: the exception forecast_data["properties"]["periods"] raises,
\* or "none".
PeriodsError(forecast_data) ==
    IF IndexError(forecast_data, "properties") # "none"
    THEN IndexError(forecast_data, "properties")
    ELSE IndexError(Index(forecast_data, "properties"), "periods")

\* The periods without the slice.
ShownPeriods_All(periods) == periods

\* periods[:5]
ShownPeriods(periods) == Prefix(periods, PeriodsShown)

\* Lines 258-273.
ForecastOutcome(forecast_data) ==
    IF ~Truthy(forecast_data)
    THEN ReturnText(<<"Unable to fetch detailed forecast.">>)
    ELSE IF PeriodsError(forecast_data) # "none"
    THEN Raise(PeriodsError(forecast_data))
    ELSE LET periods == Index(Index(forecast_data, "properties"), "periods") IN
         IF periods.t # "arr" THEN Raise("TypeError")
         ELSE IF FirstPeriodError(ShownPeriods(periods.a)) # "none"
         THEN Raise(FirstPeriodError(ShownPeriods(periods.a)))
         ELSE ReturnText(join(Separator,
                              [k \in 1..Len(ShownPeriods(periods.a)) |->
                                   FormatPeriod(ShownPeriods(periods.a)[k])]))

\* Lines 253-273: the forecast reply, if the GET was sent, decides what is
\* returned.
mcp_get_weatherforecast_end(i) ==
    /\ pc[i] = "forecast_wait"
    /\ LET sent == Len(calls[i]) = 2
           forecast_data == IF sent THEN ResponseData(workload[i].reply2) ELSE JNull
       IN Finish(i, ForecastOutcome(forecast_data))
    /\ UNCHANGED <<workload, calls, ticker_symbol, date, globals>>

-----------------------------------------------------------------------------
(* The system: requests are delivered and handled in any interleaving.     *)

InitWith(slots, requests) ==
    /\ workload \in [slots -> requests]
    /\ pc = [i \in slots |-> "idle"]
    /\ calls = [i \in slots |-> <<>>]
    /\ ticker_symbol = [i \in slots |-> <<>>]
    /\ date = [i \in slots |-> "unread"]
    /\ ret = [i \in slots |-> Pending]
    /\ globals = ModuleGlobals

\* One request at a time, over every request and reply of the bounds.
Init == InitWith({1}, Requests)

Next ==
    \/ \E i \in Slots : Trigger(i)
    \/ \E i \in Slots : hello_mcp(i)
    \/ \E i \in Slots : mcp_get_stockprice_begin(i)
    \/ \E i \in Slots : mcp_get_stockprice_end(i)
    \/ \E i \in Slots : mcp_get_weatheralerts_begin(i)
    \/ \E i \in Slots : mcp_get_weatheralerts_end(i)
    \/ \E i \in Slots : mcp_get_weatherforecast_begin(i)
    \/ \E i \in Slots : mcp_get_weatherforecast_points(i)
    \/ \E i \in Slots : mcp_get_weatherforecast_end(i)

Spec == Init /\ [][Next]_vars

\* Concurrent invocations: NumConcurrent requests in flight at once, each a
\* well-formed call of some tool whose external calls fail or succeed.
Arguments(tool) ==
    [n \in DeclaredProperties(tool) |->
        CHOOSE v \in ArgumentValues(n) : v.t = "str"]

ConcurrentRequests ==
    {r \in Requests :
        /\ \/ r.context = Document(JObj("arguments" :> JObj(Arguments(r.tool))))
           \/ r.context \in {Document(JObj("arguments" :> JObj("ticker" :> JStr(<<c>>)))) :
                                 c \in {"a", "b"}}
        /\ r.reply1 \in {NoReply, Reply("raise", JNull), Reply("ok", QuoteFull),
                         Reply("timeout", JNull),
                         Reply("ok", JObj("features" :> JArr(<<JObj("properties" :> JObj(<<>>))>>))),
                         Reply("ok", JObj("properties" :> JObj("forecast" :>
                             JStr(<<"https://api.weather.gov/gridpoints/OKX/33,35/forecast">>))))}
        /\ r.reply2 \in {NoReply, Reply("timeout", JNull),
                         Reply("ok", ForecastDocument(Periods(1, 0)))}}

InitConcurrent == InitWith(1..NumConcurrent, ConcurrentRequests)

SpecConcurrent == InitConcurrent /\ [][Next]_vars

-----------------------------------------------------------------------------
(* Vocabulary of the properties.                                           *)

Tool(i) == workload[i].tool

Finished(i) == pc[i] = "done"

Returned(i) == Finished(i) /\ ret[i].status = "returned"

\* A JSON object whose only key is error.
IsErrorPayload(r) ==
    r.status = "returned" /\ r.form = "json" /\ DOMAIN r.obj = {"error"}

IsText(r, text) == r = ReturnText(<<text>>)

\* The context is JSON text of an object whose arguments map (empty when
\* the key is absent) has no entry for the property.
LacksArgument(context, name) ==
    /\ context.wellformed
    /\ context.doc.t = "obj"
    /\ "arguments" \in DOMAIN context.doc.o =>
           /\ context.doc.o["arguments"].t = "obj"
           /\ name \notin DOMAIN context.doc.o["arguments"].o

\* The number of blocks of a text joined with the separator.
BlockCount(body) ==
    IF body = <<>> THEN 0
    ELSE 1 + Cardinality({k \in 1..Len(body) : body[k] = Separator})

Min(a, b) == IF a < b THEN a ELSE b

-----------------------------------------------------------------------------
\* C1: every invocation of every handler ends by returning a value to the
\* host; no exception propagates out of a handler.
C1_NoExceptionEscapes ==
    \A i \in Slots : Finished(i) => ret[i].status = "returned"

-----------------------------------------------------------------------------
\* C2 as stated: whichever declared argument of the tool the arguments map
\* lacks, the invocation issues no external call and returns an error
\* payload.
C2_MissingArgumentNoCall ==
    \A i \in Slots : \A n \in DeclaredProperties(Tool(i)) :
        LacksArgument(workload[i].context, n) =>
            /\ calls[i] = <<>>
            /\ Finished(i) => IsErrorPayload(ret[i])

\* C2 amended: get_stockprice without ticker returns the error payload and
\* issues no external call; get_weatheralerts and get_weatherforecast do
\* not validate and GET the URL with None in the place of what is absent.
C2_OnlyTickerIsValidated ==
    \A i \in Slots :
        LET context == workload[i].context
            started == pc[i] \notin {"idle", "entry"}
        IN
        /\ Tool(i) = "get_stockprice" /\ LacksArgument(context, "ticker") =>
               /\ calls[i] = <<>>
               /\ Finished(i) => IsErrorPayload(ret[i])
        /\ Tool(i) = "get_weatheralerts" /\ LacksArgument(context, "state") /\ started =>
               /\ calls[i] # <<>>
               /\ calls[i][1] = Call("http", <<NWS_API_BASE, "/alerts/active/area/", "None">>)
        /\ Tool(i) = "get_weatherforecast" /\ started
             /\ LacksArgument(context, "latitude") /\ LacksArgument(context, "longitude") =>
               /\ calls[i] # <<>>
               /\ calls[i][1] = Call("http", <<NWS_API_BASE, "/points/", "None", ",", "None">>)
        /\ Tool(i) = "get_weatherforecast" /\ started /\ context.wellformed
             /\ (LacksArgument(context, "latitude") \/ LacksArgument(context, "longitude")) =>
               /\ calls[i] # <<>>
               /\ \E k \in 1..Len(calls[i][1].target) : calls[i][1].target[k] = "None"

C2_Witness ==
    \E i \in Slots :
        /\ Tool(i) = "get_stockprice"
        /\ workload[i].context = Document(JObj("arguments" :> JObj(<<>>)))
        /\ Finished(i)
        /\ IsErrorPayload(ret[i])
        /\ calls[i] = <<>>

-----------------------------------------------------------------------------
\* C3: a handler that parses its context answers a context that is not
\* well-formed JSON with a JSON error object and issues no external call.
C3_MalformedContextIsReported ==
    \A i \in Slots :
        /\ Tool(i) \in {"get_stockprice", "get_weatheralerts", "get_weatherforecast"}
        /\ ~workload[i].context.wellformed
        /\ Finished(i)
        => IsErrorPayload(ret[i]) /\ calls[i] = <<>>

-----------------------------------------------------------------------------
\* The points reply carried data: the GET succeeded with a document that is
\* not empty.
PointsGaveData(reply) ==
    reply.kind = "ok" /\ reply.json # JNull /\ reply.json # JObj(<<>>)

\* C4: get_weatherforecast issues at most two external calls and repeats
\* none; the forecast GET follows a points reply that carried data and goes
\* to the URL in it; a points reply without data ends the invocation with
\* "Unable to fetch forecast data for this location." and no forecast GET;
\* a failed forecast GET ends it with "Unable to fetch detailed forecast.".
C4_ForecastTwoSteps ==
    \A i \in Slots : Tool(i) = "get_weatherforecast" =>
        LET points == workload[i].reply1
            forecast == workload[i].reply2
            asked == pc[i] \in {"forecast_wait", "done"} /\ calls[i] # <<>>
        IN
        /\ Len(calls[i]) <= 2
        /\ pc[i] \in {"idle", "entry"} => calls[i] = <<>>
        /\ Len(calls[i]) = 2 =>
               /\ PointsGaveData(points)
               /\ calls[i][1].target[2] = "/points/"
               /\ JStr(calls[i][2].target) = points.json.o["properties"].o["forecast"]
               /\ calls[i][2] # calls[i][1]
        /\ asked /\ ~PointsGaveData(points) =>
               /\ Finished(i)
               /\ IsText(ret[i], "Unable to fetch forecast data for this location.")
               /\ Len(calls[i]) = 1
        /\ Finished(i) /\ Len(calls[i]) = 2 /\ forecast.kind # "ok" =>
               IsText(ret[i], "Unable to fetch detailed forecast.")

C4_Witness ==
    \E i \in Slots :
        /\ Tool(i) = "get_weatherforecast"
        /\ Finished(i)
        /\ Len(calls[i]) = 2
        /\ calls[i][2].target = <<"https://api.weather.gov/gridpoints/PHI/57,92/forecast">>
        /\ workload[i].reply2.kind = "timeout"
        /\ IsText(ret[i], "Unable to fetch detailed forecast.")

-----------------------------------------------------------------------------
\* The alerts reply has a features field.
HasFeatures(reply) ==
    reply.kind = "ok" /\ reply.json.t = "obj" /\ "features" \in DOMAIN reply.json.o

FeaturesOf(reply) == reply.json.o["features"]

\* C5: get_weatheralerts has three outcomes.  A failed call, or a reply
\* without a features field, gives "Unable to fetch alerts or no alerts
\* found."; features that are empty give "No active alerts for this
\* state."; otherwise the output is one block per feature, in order, joined
\* with the separator.
C5_AlertsThreeOutcomes ==
    \A i \in Slots : Tool(i) = "get_weatheralerts" /\ Finished(i) /\ calls[i] # <<>> =>
        LET reply == workload[i].reply1 IN
        IF ~HasFeatures(reply)
        THEN IsText(ret[i], "Unable to fetch alerts or no alerts found.")
        ELSE IF FeaturesOf(reply) \in {JNull, JArr(<<>>)}
        THEN IsText(ret[i], "No active alerts for this state.")
        ELSE /\ ret[i].status = "returned"
             /\ ret[i].form = "text"
             /\ BlockCount(ret[i].body) = Len(FeaturesOf(reply).a)
             /\ ret[i].body = join(Separator,
                                   [k \in 1..Len(FeaturesOf(reply).a) |->
                                        format_alert(FeaturesOf(reply).a[k])])

-----------------------------------------------------------------------------
\* The periods of a forecast reply that the handler formatted.
PeriodsOf(reply) == reply.json.o["properties"].o["periods"].a

ForecastSucceeded(i) ==
    /\ Tool(i) = "get_weatherforecast"
    /\ Returned(i)
    /\ Len(calls[i]) = 2
    /\ workload[i].reply2.kind = "ok"
    /\ workload[i].reply2.json # JObj(<<>>)

\* C6: a successful get_weatherforecast output over n periods consists of
\* the blocks of the first min(n, 5) periods, in their order, and never of
\* more than 5 blocks.
C6_AtMostFivePeriods ==
    \A i \in Slots : ForecastSucceeded(i) =>
        LET periods == PeriodsOf(workload[i].reply2)
            shown == Min(Len(periods), 5)
        IN
        /\ ret[i].form = "text"
        /\ BlockCount(ret[i].body) = shown
        /\ BlockCount(ret[i].body) <= 5
        /\ ret[i].body = join(Separator, [k \in 1..shown |-> FormatPeriod(periods[k])])

C6_Witness ==
    \E i \in Slots :
        /\ ForecastSucceeded(i)
        /\ Len(PeriodsOf(workload[i].reply2)) = 6
        /\ BlockCount(ret[i].body) = 5

-----------------------------------------------------------------------------
\* The ticker argument of a get_stockprice request whose lookup started.
RawTicker(i) == workload[i].context.doc.o["arguments"].o["ticker"].s

Queried(i) == Tool(i) = "get_stockprice" /\ calls[i] # <<>>

lower_char(c) ==
    CASE c = "A" -> "a"
      [] c = "B" -> "b"
      [] OTHER -> c

\* A ticker without its surrounding blanks, letters in lower case: two
\* tickers differ only in letter case and surrounding whitespace when they
\* have the same Core.
Core(s) ==
    LET inked == {k \in 1..Len(s) : s[k] # " "} IN
    IF inked = {} THEN <<>>
    ELSE LET first == CHOOSE k \in inked : \A j \in inked : k <= j
             last == CHOOSE k \in inked : \A j \in inked : j <= k
         IN [k \in 1..(last - first + 1) |-> lower_char(s[first + k - 1])]

\* C7: the provider is asked for the normalized symbol, which any ticker
\* differing from the argument only in letter case and surrounding
\* whitespace normalizes to as well, and which normalization leaves
\* unchanged.
C7_TickerNormalization ==
    \A i \in Slots : Queried(i) =>
        /\ Len(calls[i]) = 1
        /\ calls[i][1].to = "quote"
        /\ calls[i][1].target = ticker_symbol[i]
        /\ \A t \in TickerStrings :
               Core(t) = Core(RawTicker(i)) => NormalizeTicker(t) = calls[i][1].target
        /\ NormalizeTicker(calls[i][1].target) = calls[i][1].target
        /\ \A k \in 1..Len(calls[i][1].target) : calls[i][1].target[k] \notin {"a", "b"}

C7_Witness ==
    \E i \in Slots :
        /\ Queried(i)
        /\ RawTicker(i) = <<" ", "a">>
        /\ calls[i][1].target = <<"A">>

-----------------------------------------------------------------------------
\* The provider gave no data, or a record without currentPrice.
NoCurrentPrice(reply) ==
    /\ reply.kind = "ok"
    /\ \/ reply.json = JNull
       \/ reply.json.t = "obj" /\ "currentPrice" \notin DOMAIN reply.json.o

IsStockSuccess(r) ==
    r.status = "returned" /\ r.form = "json" /\ "symbol" \in DOMAIN r.obj

\* C8: when the provider gives no data or a record without currentPrice,
\* get_stockprice returns the JSON object whose only key is error and whose
\* message names the normalized ticker; it returns a success payload only
\* for a record with currentPrice; it never raises.
C8_NoPriceIsAnError ==
    \A i \in Slots : Tool(i) = "get_stockprice" /\ Finished(i) =>
        LET reply == workload[i].reply1 IN
        /\ ret[i].status = "returned"
        /\ Queried(i) /\ NoCurrentPrice(reply) =>
               /\ IsErrorPayload(ret[i])
               /\ ret[i].obj["error"] =
                      <<"Unable to fetch stock data for ticker symbol: ">>
                      \o calls[i][1].target
                      \o <<". Please check if the symbol is valid.">>
        /\ IsStockSuccess(ret[i]) =>
               /\ Queried(i)
               /\ reply.kind = "ok"
               /\ reply.json.t = "obj"
               /\ "currentPrice" \in DOMAIN reply.json.o
               /\ ret[i].obj["symbol"] = calls[i][1].target
               /\ ret[i].obj["current_price"] = Str(reply.json.o["currentPrice"])

C8_Witness ==
    \E i \in Slots :
        /\ Queried(i)
        /\ Finished(i)
        /\ workload[i].reply1 = Reply("ok", JObj("longName" :> JStr(<<"Apple Inc.">>)))
        /\ IsErrorPayload(ret[i])
        /\ calls[i][1].target = <<"A", "B">>

-----------------------------------------------------------------------------
\* What the handler of a request returns when it runs alone and reads the
\* date d.
ResultAlone(r, d) ==
    CASE r.tool = "hello_mcp" -> ReturnText(<<"Hello I am MCPTool!">>)
      [] r.tool = "get_stockprice" ->
             IF StockPrepare(r.context).early THEN StockPrepare(r.context).ret
             ELSE StockOutcome(StockPrepare(r.context).symbol, r.reply1, d).ret
      [] r.tool = "get_weatheralerts" ->
             IF ArgumentsError(r.context) # "none" THEN Raise(ArgumentsError(r.context))
             ELSE AlertsOutcome(ResponseData(r.reply1))
      [] r.tool = "get_weatherforecast" ->
             IF ArgumentsError(r.context) # "none" THEN Raise(ArgumentsError(r.context))
             ELSE IF ~Truthy(ResponseData(r.reply1))
             THEN ReturnText(<<"Unable to fetch forecast data for this location.">>)
             ELSE IF ForecastUrlError(ResponseData(r.reply1)) # "none"
             THEN Raise(ForecastUrlError(ResponseData(r.reply1)))
             ELSE IF ForecastUrl(ResponseData(r.reply1)).t # "str"
             THEN ForecastOutcome(JNull)
             ELSE ForecastOutcome(ResponseData(r.reply2))

\* C9 as stated: what an invocation returns depends only on its context
\* and the replies to its external calls, so two invocations given the same
\* return the same; the module-level objects stay as built at import.
C9_ResultFromContextAndReplies ==
    /\ globals = ModuleGlobals
    /\ \A i, j \in Slots :
           Finished(i) /\ Finished(j) /\ workload[i] = workload[j] => ret[i] = ret[j]

\* C9 amended: what an invocation returns depends only on its context, the
\* replies to its external calls and, for a get_stockprice success, the
\* date it read; whatever the other invocations do, it returns what it
\* returns alone; the module-level objects stay as built at import.
C9_ResultFromOwnInputs ==
    /\ globals = ModuleGlobals
    /\ \A i \in Slots : Finished(i) => ret[i] = ResultAlone(workload[i], date[i])
    /\ \A i, j \in Slots :
           Finished(i) /\ Finished(j) /\ workload[i] = workload[j] /\ date[i] = date[j]
           => ret[i] = ret[j]

C9_Witness ==
    \E i, j \in Slots :
        /\ i # j
        /\ Finished(i) /\ Finished(j)
        /\ Tool(i) = "get_stockprice" /\ Tool(j) = "get_stockprice"
        /\ workload[i].context # workload[j].context
        /\ IsStockSuccess(ret[i]) /\ IsStockSuccess(ret[j])
        /\ ret[i].obj["symbol"] = <<"A">>
        /\ ret[j].obj["symbol"] = <<"B">>

-----------------------------------------------------------------------------
\* C10: get_stockprice never asks the provider for an empty symbol; a
\* ticker that normalizes to the empty string gets the "No ticker symbol
\* provided" error and no external call.
C10_NoEmptySymbolLookup ==
    \A i \in Slots : Tool(i) = "get_stockprice" =>
        /\ \A k \in 1..Len(calls[i]) : calls[i][k].target # <<>>
        /\ /\ Finished(i)
           /\ ArgumentsError(workload[i].context) = "none"
           /\ Argument(workload[i].context, "ticker").t = "str"
           /\ Core(Argument(workload[i].context, "ticker").s) = <<>>
           => /\ calls[i] = <<>>
              /\ ret[i] = ErrorJson(<<"No ticker symbol provided. Please provide a ticker symbol like TSLA, AAPL, etc.">>)

====
